---- MODULE Spec2Model ----
(***************************************************************************)
(* A model of regenerate_docs.py: the script that reads an OpenAPI         *)
(* document and writes one .mdx page per (path, method) pair.              *)
(*                                                                         *)
(* Text is modelled as a sequence of one-character strings, so that        *)
(* lstrip, replace, lower, upper and startswith are computed character by  *)
(* character.  A JSON object whose key order the code iterates (paths, a   *)
(* path item, responses) is a sequence of <<key, value>> pairs with        *)
(* distinct keys; a JSON object the code only reads with .get is a         *)
(* function whose DOMAIN is the set of keys that are present.              *)
(***************************************************************************)
EXTENDS Integers, Sequences, FiniteSets, TLC

VARIABLES
    pc,               \* position of regenerate_all_docs
    spec,             \* <<>> before load_openapi_spec returns, <<document>> after
    disk,             \* the api directory: [exists, files], files: filename -> content
    generated_count,  \* the success counter
    pi,               \* index of the current path in paths.items()
    mi,               \* index of the current method in path_item.items()
    prev,             \* <<>>, or <<the directory as the previous completed run left it>>
    prior,            \* the directory as it was before the script was first run
    input,            \* api-reference/openapi.json: <<>> if it cannot be loaded, else <<document>>
    arg,              \* argument of the pure function under study
    ret               \* <<>> before the call, <<result>> after

vars == <<pc, spec, disk, generated_count, pi, mi, prev, prior, input, arg, ret>>

-----------------------------------------------------------------------------
(* Bounds of the model *)

MaxPathLen == 4      \* longest path string given to clean_filename alone
MaxParams == 3       \* longest parameters list of an operation
MaxResponses == 3    \* most entries in a responses mapping
MaxPairs == 2        \* most (path, method) entries in the document

-----------------------------------------------------------------------------
(* Python built-ins used by the script *)

UpperCase == <<"A","B","C","D","E","F","G","H","I","J","K","L","M",
               "N","O","P","Q","R","S","T","U","V","W","X","Y","Z">>
LowerCase == <<"a","b","c","d","e","f","g","h","i","j","k","l","m",
               "n","o","p","q","r","s","t","u","v","w","x","y","z">>

LowerChar(c) ==
    IF \E k \in 1..26 : UpperCase[k] = c
    THEN LowerCase[CHOOSE k \in 1..26 : UpperCase[k] = c]
    ELSE c

UpperChar(c) ==
    IF \E k \in 1..26 : LowerCase[k] = c
    THEN UpperCase[CHOOSE k \in 1..26 : LowerCase[k] = c]
    ELSE c

\* str.lower()
lower(s) == [k \in 1..Len(s) |-> LowerChar(s[k])]

\* str.upper()
upper(s) == [k \in 1..Len(s) |-> UpperChar(s[k])]

\* str.lstrip(c): every leading occurrence of c is removed
RECURSIVE lstrip(_, _)
lstrip(s, c) ==
    IF s # <<>> /\ Head(s) = c THEN lstrip(Tail(s), c) ELSE s

\* str.replace(old, new) for single characters
replace(s, old, new) == [k \in 1..Len(s) |-> IF s[k] = old THEN new ELSE s[k]]

\* str.startswith(c) for a single character
startswith(s, c) == s # <<>> /\ Head(s) = c

\* dict.get(key, default)
Get(d, key, default) == IF key \in DOMAIN d THEN d[key] ELSE default

\* the empty JSON object {}
EmptyDict == [k \in {} |-> ""]

\* truth value of a dict
Truthy(d) == DOMAIN d # {}

\* d[key] = value, adding the key when absent
Put(d, key, value) ==
    [k \in DOMAIN d \cup {key} |-> IF k = key THEN value ELSE d[k]]

-----------------------------------------------------------------------------
(* clean_filename *)

Ext == <<".", "m", "d", "x">>

\* a plausible slip: path[1:] in place of lstrip('/'), dropping the first
\* character only
clean_filename_first_char(path, method) ==
    lower(method) \o <<"-">>
        \o replace(IF path = <<>> THEN path ELSE Tail(path), "/", "-") \o Ext

clean_filename(path, method) ==
    LET clean_path == replace(lstrip(path, "/"), "/", "-")
    IN  lower(method) \o <<"-">> \o clean_path \o Ext

-----------------------------------------------------------------------------
(* generate_mdx_content *)

\* Literal text of a template is kept as one element; text the code inspects
\* character by character (paths, methods, status codes, $ref pointers) is
\* one character per element.  An f-string is the concatenation of its parts.

\* s.split('/')[-1]: the text after the last '/', or s when it has none
RECURSIVE LastSegment(_)
LastSegment(s) ==
    IF \E k \in 1..Len(s) : s[k] = "/"
    THEN LastSegment(Tail(s))
    ELSE s

\* the block written for a request body (lines 35-44)
BodyField(request_body) ==
    IF Truthy(request_body) /\ "content" \in DOMAIN request_body
    THEN LET content == request_body["content"] IN
         IF "application/json" \in DOMAIN content
         THEN LET schema == Get(content["application/json"], "schema", EmptyDict) IN
              IF "$ref" \in DOMAIN schema
              THEN << [tag |-> "ParamField", kind |-> "body", name |-> <<"data">>,
                       type |-> <<"object">>, required |-> <<"required">>,
                       text |-> <<"Request body data (">>
                                 \o LastSegment(schema["$ref"]) \o <<")">>] >>
              ELSE << [tag |-> "ParamField", kind |-> "body", name |-> <<"data">>,
                       type |-> <<"object">>, required |-> <<"required">>,
                       text |-> <<"Request body data">>] >>
         ELSE <<>>
    ELSE <<>>

\* the block written for one parameter (lines 49-53 and 58-62); d is the text
\* the loop body has just assigned to the variable `description`
ParamBlock(kind, param, d) ==
    [tag |-> "ParamField", kind |-> kind,
     name |-> Get(param, "name", <<>>),
     type |-> Get(Get(param, "schema", EmptyDict), "type", <<"string">>),
     required |-> IF Get(param, "required", FALSE) THEN <<"required">> ELSE <<>>,
     text |-> d]

\* the value line 52 / line 61 assigns to `description`
ParamDescription(param) ==
    Get(param, "description", Get(param, "name", <<>>) \o <<" parameter">>)

\* one loop over `parameters` (lines 47-53 with kind = "path", lines 56-62
\* with kind = "query").  st = [fields, description] holds the two local
\* variables the loop body assigns: request_fields and description.
RECURSIVE ParamLoop(_, _, _)
ParamLoop(kind, parameters, st) ==
    IF parameters = <<>> THEN st
    ELSE LET param == Head(parameters) IN
         IF Get(param, "in", "") = kind
         THEN ParamLoop(kind, Tail(parameters),
                  [fields |-> Append(st.fields,
                                  ParamBlock(kind, param, ParamDescription(param))),
                   description |-> ParamDescription(param)])
         ELSE ParamLoop(kind, Tail(parameters), st)

Heading(text) ==
    [tag |-> "heading", name |-> <<>>, type |-> <<>>, text |-> text]

ResponseField(name, type, text) ==
    [tag |-> "ResponseField", name |-> name, type |-> type, text |-> text]

\* a plausible slip: the test for a leading 5 is left out
RECURSIVE ErrorKeysOnly4(_)
ErrorKeysOnly4(responses) ==
    IF responses = <<>> THEN <<>>
    ELSE LET k == Head(responses)[1] IN
         IF startswith(k, "4")
         THEN <<k>> \o ErrorKeysOnly4(Tail(responses))
         ELSE ErrorKeysOnly4(Tail(responses))

\* keys of the dict comprehension of line 67, in the order of responses.items()
RECURSIVE ErrorKeys(_)
ErrorKeys(responses) ==
    IF responses = <<>> THEN <<>>
    ELSE LET k == Head(responses)[1] IN
         IF startswith(k, "4") \/ startswith(k, "5")
         THEN <<k>> \o ErrorKeys(Tail(responses))
         ELSE ErrorKeys(Tail(responses))

\* responses.get('200', {})
SuccessResponse(responses) ==
    IF \E k \in 1..Len(responses) : responses[k][1] = <<"2", "0", "0">>
    THEN responses[CHOOSE k \in 1..Len(responses) :
                       responses[k][1] = <<"2", "0", "0">>][2]
    ELSE EmptyDict

\* lines 71-75
SuccessFields(responses) ==
    IF Truthy(SuccessResponse(responses))
    THEN << Heading(<<"Success Responses">>),
            ResponseField(<<"status">>, <<"number">>, <<"HTTP status code: 200">>),
            ResponseField(<<"message">>, <<"string">>, <<"Success message">>),
            ResponseField(<<"data">>, <<"object">>, <<"Response data">>) >>
    ELSE <<>>

\* lines 79-82
RECURSIVE ErrorTriplets(_)
ErrorTriplets(keys) ==
    IF keys = <<>> THEN <<>>
    ELSE << ResponseField(<<"status">>, <<"number">>,
                          <<"HTTP status code: ">> \o Head(keys)),
            ResponseField(<<"message">>, <<"string">>, <<"Error message">>),
            ResponseField(<<"error">>, <<"object">>, <<"Error details">>) >>
         \o ErrorTriplets(Tail(keys))

\* lines 77-82
ErrorFields(responses) ==
    IF ErrorKeys(responses) # <<>>
    THEN <<Heading(<<"Error Responses">>)>> \o ErrorTriplets(ErrorKeys(responses))
    ELSE <<>>

\* lines 85-156: the example section depends on method and path alone
ExampleRequests(path, method) ==
    [curl |-> upper(method), url |-> path, requests |-> lower(method)]

\* lines 159-166
AuthNote(operation) ==
    IF Get(operation, "security", <<>>) # <<>> THEN <<"Note">> ELSE <<>>

\* a plausible slip: the query loop placed before the path loop
generate_mdx_content_query_first(path, method, operation) ==
    LET description0 ==
            Get(operation, "description",
                <<"API endpoint: ">> \o upper(method) \o <<" ">> \o path)
        parameters == Get(operation, "parameters", <<>>)
        st0 == [fields |-> BodyField(Get(operation, "requestBody", EmptyDict)),
                description |-> description0]
        st2 == ParamLoop("path", parameters, ParamLoop("query", parameters, st0))
        responses == Get(operation, "responses", <<>>)
    IN  [title |-> Get(operation, "summary", upper(method) \o <<" ">> \o path),
         api |-> upper(method) \o <<" ">> \o path,
         description |-> st2.description,
         overview |-> st2.description,
         auth_note |-> AuthNote(operation),
         request_fields |-> st2.fields,
         response_fields |-> SuccessFields(responses) \o ErrorFields(responses),
         example_requests |-> ExampleRequests(path, method)]

generate_mdx_content(path, method, operation) ==
    LET title == Get(operation, "summary", upper(method) \o <<" ">> \o path)
        description0 ==
            Get(operation, "description",
                <<"API endpoint: ">> \o upper(method) \o <<" ">> \o path)
        parameters == Get(operation, "parameters", <<>>)
        request_body == Get(operation, "requestBody", EmptyDict)
        st0 == [fields |-> BodyField(request_body), description |-> description0]
        st1 == ParamLoop("path", parameters, st0)
        st2 == ParamLoop("query", parameters, st1)
        responses == Get(operation, "responses", <<>>)
    IN  [title |-> title,
         api |-> upper(method) \o <<" ">> \o path,
         description |-> st2.description,
         overview |-> st2.description,
         auth_note |-> AuthNote(operation),
         request_fields |-> st2.fields,
         response_fields |-> SuccessFields(responses) \o ErrorFields(responses),
         example_requests |-> ExampleRequests(path, method)]

-----------------------------------------------------------------------------
(* Inputs *)

\* every sequence over S of length at most n
SeqsUpTo(S, n) == UNION {[1..k -> S] : k \in 0..n}

\* every sequence of <<key, value>> pairs with distinct keys, at most n long
ItemsUpTo(K, V, n) ==
    {s \in SeqsUpTo(K \X V, n) :
        \A a, b \in 1..Len(s) : a # b => s[a][1] # s[b][1]}

\* a key that is absent, or present with a value of S
Optional(key, S) == {EmptyDict} \cup {key :> v : v \in S}

PathChars == {"/", "a", "-"}

MethodGet == <<"g", "e", "t">>
MethodGET == <<"G", "E", "T">>
MethodPost == <<"P", "o", "s", "t">>
MethodHead == <<"h", "e", "a", "d">>
MethodNames == {MethodGet, MethodGET, MethodPost, MethodHead}

NameInputs == [path : SeqsUpTo(PathChars, MaxPathLen), method : MethodNames]

ParamId ==
    [in |-> "path", name |-> <<"id">>, required |-> TRUE,
     schema |-> [type |-> <<"integer">>], description |-> <<"The id">>]
ParamOrg == [in |-> "path", name |-> <<"org">>]
ParamQ ==
    [in |-> "query", name |-> <<"q">>, schema |-> EmptyDict,
     description |-> <<"Search text">>]
ParamLimit == [in |-> "query", name |-> <<"limit">>, required |-> FALSE]
ParamHeader ==
    [in |-> "header", name |-> <<"X-Trace">>, description |-> <<"Trace id">>]
ParamBare == [name |-> <<"z">>]
Params == {ParamId, ParamOrg, ParamQ, ParamLimit, ParamHeader, ParamBare}

RefUser ==
    <<"#", "/", "c", "o", "m", "p", "o", "n", "e", "n", "t", "s", "/",
      "s", "c", "h", "e", "m", "a", "s", "/", "U", "s", "e", "r">>

RequestBodies ==
    { EmptyDict,
      [description |-> <<"no content">>],
      [content |-> EmptyDict],
      [content |-> ("text/plain" :> EmptyDict)],
      [content |-> ("application/json" :> EmptyDict)],
      [content |-> ("application/json" :> [schema |-> [type |-> <<"object">>]])],
      [content |-> ("application/json" :> [schema |-> ("$ref" :> RefUser)])] }

Key200 == <<"2", "0", "0">>
StatusKeys ==
    { Key200, <<"2", "0", "1">>, <<"4", "0", "0">>, <<"4", "0", "4">>,
      <<"5", "0", "0">>, <<"4", "X", "X">>, <<"d", "e", "f", "a", "u", "l", "t">> }
ResponseObjects == {EmptyDict, [description |-> <<"A response">>]}

SamplePath == <<"/", "u", "/", "{", "i", "d", "}">>

\* operations that vary in description, summary, parameters and request body
FieldOperations ==
    { a @@ b @@ c @@ d @@ e :
        a \in Optional("description", {<<"Fetches a user">>}),
        b \in Optional("summary", {<<"Get user">>}),
        c \in Optional("parameters", SeqsUpTo(Params, MaxParams)),
        d \in Optional("requestBody", RequestBodies),
        e \in {[responses |-> << <<Key200, [description |-> <<"OK">>]>> >>]} }

\* operations that vary in responses and security
ResponseOperations ==
    { a @@ b @@ c :
        a \in Optional("responses",
                       ItemsUpTo(StatusKeys, ResponseObjects, MaxResponses)),
        b \in Optional("security", {<<>>, <<[ApiKeyAuth |-> <<>>]>>}),
        c \in Optional("parameters", {<<ParamQ>>}) }

FieldInputs ==
    [path : {SamplePath}, method : {MethodGet, MethodPost}, operation : FieldOperations]

ResponseInputs ==
    [path : {SamplePath}, method : {MethodGet}, operation : ResponseOperations]

-----------------------------------------------------------------------------
(* The pure functions, each called once on an input of a bounded set *)

EmptyDisk == [exists |-> FALSE, files |-> EmptyDict]

DriverIdle ==
    /\ pc = "idle"
    /\ spec = <<>>
    /\ disk = EmptyDisk
    /\ generated_count = 0
    /\ pi = 1
    /\ mi = 1
    /\ prev = <<>>
    /\ prior = EmptyDisk
    /\ input = <<>>

driverVars == <<pc, spec, disk, generated_count, pi, mi, prev, prior, input>>

CallCleanFilename ==
    /\ ret = <<>>
    /\ ret' = <<clean_filename(arg.path, arg.method)>>
    /\ UNCHANGED <<arg, driverVars>>

CallGenerate ==
    /\ ret = <<>>
    /\ ret' = <<generate_mdx_content(arg.path, arg.method, arg.operation)>>
    /\ UNCHANGED <<arg, driverVars>>

InitName == DriverIdle /\ arg \in NameInputs /\ ret = <<>>
SpecName == InitName /\ [][CallCleanFilename]_vars

InitFields == DriverIdle /\ arg \in FieldInputs /\ ret = <<>>
SpecFields == InitFields /\ [][CallGenerate]_vars

InitResponses == DriverIdle /\ arg \in ResponseInputs /\ ret = <<>>
SpecResponses == InitResponses /\ [][CallGenerate]_vars

-----------------------------------------------------------------------------
(* regenerate_all_docs *)

KeyParameters == <<"p", "a", "r", "a", "m", "e", "t", "e", "r", "s">>
PathAB == <<"/", "a", "/", "b">>
PathA_B == <<"/", "a", "-", "b">>

\* keys of a path item, and the paths, of the documents the script is run on
DriverKeys == {MethodGet, MethodGET, MethodPost, KeyParameters}
DriverPaths == {PathAB, PathA_B}
DriverOperations ==
    { EmptyDict,
      [summary |-> <<"List">>, description |-> <<"Lists things">>,
       parameters |-> <<ParamQ>>,
       responses |-> << <<Key200, [description |-> <<"OK">>]>> >>,
       security |-> <<[ApiKeyAuth |-> <<>>]>>] }

\* every `paths` mapping over the paths P with at most n entries in its path
\* items altogether
RECURSIVE PathsUpTo(_, _)
PathsUpTo(P, n) ==
    {<<>>} \cup
    UNION { { << <<p, item>> >> \o rest : rest \in PathsUpTo(P \ {p}, n - Len(item)) } :
            p \in P, item \in ItemsUpTo(DriverKeys, DriverOperations, n) }

Documents == Optional("paths", PathsUpTo(DriverPaths, MaxPairs))

StaleContent == <<[title |-> <<"A page of an earlier document">>]>>
StaleName == <<"o", "l", "d", ".", "m", "d", "x">>

\* the api directory before the first run: missing, empty, or holding pages
\* of a run on another document
PriorDisks ==
    { EmptyDisk,
      [exists |-> TRUE, files |-> EmptyDict],
      [exists |-> TRUE,
       files |-> (StaleName :> StaleContent)
                     @@ (clean_filename(PathAB, MethodGet) :> StaleContent)] }

SupportedMethods ==
    { <<"G", "E", "T">>, <<"P", "O", "S", "T">>, <<"P", "U", "T">>,
      <<"P", "A", "T", "C", "H">>, <<"D", "E", "L", "E", "T", "E">> }

\* a plausible slip: the method compared without upper()
IsSupportedCaseSensitive(method) == method \in SupportedMethods

\* line 205
IsSupported(method) == upper(method) \in SupportedMethods

\* spec.get('paths', {}) as paths.items()
PathsOf(document) == Get(document, "paths", <<>>)

paths == PathsOf(spec[1])

\* the first position of the nested loops of lines 203-204 at or after
\* (p, m): the loops pass over a path item that is exhausted
RECURSIVE Position(_, _, _)
Position(ps, p, m) ==
    IF p > Len(ps) THEN <<p, 1>>
    ELSE IF m > Len(ps[p][2]) THEN Position(ps, p + 1, 1)
    ELSE <<p, m>>

AtEntry == pc = "loop" /\ pi <= Len(paths)
CurPath == paths[pi][1]
CurMethod == paths[pi][2][mi][1]
CurOperation == paths[pi][2][mi][2]

\* the script is started
Start ==
    /\ pc = "idle"
    /\ pc' = "load"
    /\ UNCHANGED <<spec, disk, generated_count, pi, mi, prev, prior, input, arg, ret>>

\* line 189, load_openapi_spec returns the document
Load ==
    /\ pc = "load"
    /\ input # <<>>
    /\ spec' = input
    /\ pc' = "clear"
    /\ UNCHANGED <<disk, generated_count, pi, mi, prev, prior, input, arg, ret>>

\* a plausible slip: the directory is removed before the document is loaded
LoadFailAfterClear ==
    /\ pc = "load"
    /\ input = <<>>
    /\ pc' = "failed"
    /\ disk' = EmptyDisk
    /\ UNCHANGED <<spec, generated_count, pi, mi, prev, prior, input, arg, ret>>

\* line 189, open or json.load raises
LoadFail ==
    /\ pc = "load"
    /\ input = <<>>
    /\ pc' = "failed"
    /\ UNCHANGED <<spec, disk, generated_count, pi, mi, prev, prior, input, arg, ret>>

\* a plausible slip: the existing directory is kept
ClearKeeps ==
    /\ pc = "clear"
    /\ pc' = "mkdir"
    /\ UNCHANGED <<spec, disk, generated_count, pi, mi, prev, prior, input, arg, ret>>

\* lines 193-196
Clear ==
    /\ pc = "clear"
    /\ disk' = IF disk.exists THEN EmptyDisk ELSE disk
    /\ pc' = "mkdir"
    /\ UNCHANGED <<spec, generated_count, pi, mi, prev, prior, input, arg, ret>>

\* line 196, shutil.rmtree raises after removing some of the files
ClearFail ==
    /\ pc = "clear"
    /\ disk.exists
    /\ \E kept \in SUBSET DOMAIN disk.files :
          disk' = [exists |-> TRUE, files |-> [f \in kept |-> disk.files[f]]]
    /\ pc' = "failed"
    /\ UNCHANGED <<spec, generated_count, pi, mi, prev, prior, input, arg, ret>>

\* lines 199-201, and the entry into the loops of lines 203-204
Mkdir ==
    /\ pc = "mkdir"
    /\ disk' = [disk EXCEPT !.exists = TRUE]
    /\ generated_count' = 0
    /\ pi' = Position(paths, 1, 1)[1]
    /\ mi' = Position(paths, 1, 1)[2]
    /\ pc' = "loop"
    /\ UNCHANGED <<spec, prev, prior, input, arg, ret>>

\* line 199, mkdir raises
MkdirFail ==
    /\ pc = "mkdir"
    /\ pc' = "failed"
    /\ UNCHANGED <<spec, disk, generated_count, pi, mi, prev, prior, input, arg, ret>>

\* line 205 is false: the loops go on to the next entry
Skip ==
    /\ AtEntry
    /\ ~IsSupported(CurMethod)
    /\ pi' = Position(paths, pi, mi + 1)[1]
    /\ mi' = Position(paths, pi, mi + 1)[2]
    /\ UNCHANGED <<pc, spec, disk, generated_count, prev, prior, input, arg, ret>>

\* lines 207-215: the page is generated and written, replacing a file of
\* the same name
Write ==
    /\ AtEntry
    /\ IsSupported(CurMethod)
    /\ disk' = [disk EXCEPT !.files =
                   Put(@, clean_filename(CurPath, CurMethod),
                       <<generate_mdx_content(CurPath, CurMethod, CurOperation)>>)]
    /\ pc' = "count"
    /\ UNCHANGED <<spec, generated_count, pi, mi, prev, prior, input, arg, ret>>

\* line 214, open raises: nothing is created or truncated
OpenFail ==
    /\ AtEntry
    /\ IsSupported(CurMethod)
    /\ pc' = "failed"
    /\ UNCHANGED <<spec, disk, generated_count, pi, mi, prev, prior, input, arg, ret>>

\* line 215, the write raises after open(filepath, 'w') created or truncated
\* the file: the file is left without its page (<<>>)
WriteFail ==
    /\ AtEntry
    /\ IsSupported(CurMethod)
    /\ disk' = [disk EXCEPT !.files = Put(@, clean_filename(CurPath, CurMethod), <<>>)]
    /\ pc' = "failed"
    /\ UNCHANGED <<spec, generated_count, pi, mi, prev, prior, input, arg, ret>>

\* lines 217-218, and the loops go on to the next entry
Count ==
    /\ pc = "count"
    /\ generated_count' = generated_count + 1
    /\ pi' = Position(paths, pi, mi + 1)[1]
    /\ mi' = Position(paths, pi, mi + 1)[2]
    /\ pc' = "loop"
    /\ UNCHANGED <<spec, disk, prev, prior, input, arg, ret>>

\* line 220: the loops are over
Finish ==
    /\ pc = "loop"
    /\ pi > Len(paths)
    /\ pc' = "done"
    /\ UNCHANGED <<spec, disk, generated_count, pi, mi, prev, prior, input, arg, ret>>

\* the script is run once more on the same input (lines 222-223)
Rerun ==
    /\ pc = "done"
    /\ prev = <<>>
    /\ prev' = <<disk>>
    /\ pc' = "idle"
    /\ spec' = <<>>
    /\ generated_count' = 0
    /\ pi' = 1
    /\ mi' = 1
    /\ UNCHANGED <<disk, prior, input, arg, ret>>

Init ==
    /\ pc = "idle"
    /\ spec = <<>>
    /\ prior \in PriorDisks
    /\ disk = prior
    /\ generated_count = 0
    /\ pi = 1
    /\ mi = 1
    /\ prev = <<>>
    /\ input \in {<<>>} \cup {<<d>> : d \in Documents}
    /\ arg = <<>>
    /\ ret = <<>>

Next ==
    \/ Start
    \/ Load
    \/ LoadFail
    \/ Clear
    \/ ClearFail
    \/ Mkdir
    \/ MkdirFail
    \/ Skip
    \/ Write
    \/ OpenFail
    \/ WriteFail
    \/ Count
    \/ Finish
    \/ Rerun

Spec == Init /\ [][Next]_vars

-----------------------------------------------------------------------------
(* Claims about clean_filename (SpecName) *)

\* P is `path` without its first n characters, every "/" left turned into "-"
Hyphenated(path, n, P) ==
    /\ Len(P) = Len(path) - n
    /\ \A k \in 1..Len(P) : P[k] = IF path[n + k] = "/" THEN "-" ELSE path[n + k]

\* r is lower(method) + "-" + P + ".mdx" where P is `path` hyphenated after
\* its first n characters
NameShape(r, path, method, n) ==
    /\ Len(r) = Len(method) + 1 + (Len(path) - n) + Len(Ext)
    /\ \A k \in 1..Len(method) : r[k] = LowerChar(method[k])
    /\ r[Len(method) + 1] = "-"
    /\ SubSeq(r, Len(r) - Len(Ext) + 1, Len(r)) = Ext
    /\ Hyphenated(path, n, SubSeq(r, Len(method) + 2, Len(r) - Len(Ext)))

\* number of leading "/" of path
LeadingSeparators(path) ==
    CHOOSE n \in 0..Len(path) :
        /\ \A k \in 1..n : path[k] = "/"
        /\ n < Len(path) => path[n + 1] # "/"

\* C4 as stated: clean_filename returns lower(method) + "-" + P + ".mdx" where
\* P is the path with a single leading separator stripped (only one, if
\* present) and every remaining separator replaced by a hyphen.
C4_SingleSeparatorStripped ==
    ret # <<>> =>
        NameShape(ret[1], arg.path, arg.method,
                  IF startswith(arg.path, "/") THEN 1 ELSE 0)

\* C4 amended: clean_filename returns lower(method) + "-" + P + ".mdx" where P
\* is the path with every leading separator stripped and every remaining
\* separator replaced by a hyphen; it returns for every input.
C4_AllLeadingSeparatorsStripped ==
    ret # <<>> =>
        NameShape(ret[1], arg.path, arg.method, LeadingSeparators(arg.path))

\* C4: a path with two leading separators and an internal one, with a method
\* in upper case, has been named
C4_Witness ==
    /\ ret # <<>>
    /\ arg.path = <<"/", "/", "a", "/">>
    /\ arg.method = MethodGET
    /\ ret[1] = <<"g", "e", "t", "-", "a", "-", ".", "m", "d", "x">>

-----------------------------------------------------------------------------
(* Claims about the request section (SpecFields) *)

\* the Operation's own description: its attribute, or the fallback text
OwnDescription(a) ==
    IF "description" \in DOMAIN a.operation
    THEN a.operation["description"]
    ELSE <<"API endpoint: ">> \o upper(a.method) \o <<" ">> \o a.path

\* C2: the description of the front-matter header and of the Overview section
\* is the Operation's own description, whatever parameters, request body and
\* responses the operation has.
C2_DescriptionIsTheOperations ==
    ret # <<>> =>
        /\ ret[1].description = OwnDescription(arg)
        /\ ret[1].overview = OwnDescription(arg)

HasJsonBody(operation) ==
    /\ "requestBody" \in DOMAIN operation
    /\ "content" \in DOMAIN operation["requestBody"]
    /\ "application/json" \in DOMAIN operation["requestBody"]["content"]

ParametersOf(operation) ==
    IF "parameters" \in DOMAIN operation THEN operation["parameters"] ELSE <<>>

\* positions in `parameters` of the parameters whose `in` is kind
Positions(parameters, kind) ==
    {k \in 1..Len(parameters) :
        "in" \in DOMAIN parameters[k] /\ parameters[k]["in"] = kind}

\* the n-th smallest element of a set of positions
Nth(S, n) == CHOOSE k \in S : Cardinality({j \in S : j < k}) = n - 1

\* block is the field block of kind `kind` for `param`
BlockOf(block, kind, param) ==
    /\ block.kind = kind
    /\ block.name = (IF "name" \in DOMAIN param THEN param["name"] ELSE <<>>)
    /\ block.required =
           (IF "required" \in DOMAIN param /\ param["required"]
            THEN <<"required">> ELSE <<>>)

\* C5: the blocks of the Request section are the body field (present exactly
\* when the request body has an application/json content entry), then one
\* path block per parameter with in == path in the order of `parameters`,
\* then one query block per parameter with in == query in that order;
\* parameters with any other `in` yield no block.
C5_BodyThenPathThenQuery ==
    ret # <<>> =>
        LET blocks == ret[1].request_fields
            ps == ParametersOf(arg.operation)
            b == IF HasJsonBody(arg.operation) THEN 1 ELSE 0
            P == Positions(ps, "path")
            Q == Positions(ps, "query")
            np == Cardinality(P)
            nq == Cardinality(Q)
        IN  /\ Len(blocks) = b + np + nq
            /\ b = 1 => blocks[1].kind = "body"
            /\ \A n \in 1..np : BlockOf(blocks[b + n], "path", ps[Nth(P, n)])
            /\ \A n \in 1..nq : BlockOf(blocks[b + np + n], "query", ps[Nth(Q, n)])

\* C5: a body, a query parameter declared first, two path parameters declared
\* after it: the document lists body, id, org, q
C5_Witness ==
    /\ ret # <<>>
    /\ HasJsonBody(arg.operation)
    /\ ParametersOf(arg.operation) = <<ParamQ, ParamId, ParamOrg>>
    /\ Len(ret[1].request_fields) = 4
    /\ ret[1].request_fields[2].name = <<"id">>
    /\ ret[1].request_fields[3].name = <<"org">>
    /\ ret[1].request_fields[4].name = <<"q">>

-----------------------------------------------------------------------------
(* Claims about the response-codes section (SpecResponses) *)

ResponsesOf(operation) ==
    IF "responses" \in DOMAIN operation THEN operation["responses"] ELSE <<>>

HasKey(responses, key) == \E k \in 1..Len(responses) : responses[k][1] = key

\* position of the "Error Responses" heading, or one past the end
ErrorHeadingAt(fields) ==
    IF \E k \in 1..Len(fields) : fields[k] = Heading(<<"Error Responses">>)
    THEN CHOOSE k \in 1..Len(fields) : fields[k] = Heading(<<"Error Responses">>)
    ELSE Len(fields) + 1

IsField(f) == f.tag = "ResponseField"

\* the fields rendered before the error heading / after it
SuccessGroup(fields) == SelectSeq(SubSeq(fields, 1, ErrorHeadingAt(fields) - 1), IsField)
ErrorGroup(fields) == SubSeq(fields, ErrorHeadingAt(fields) + 1, Len(fields))

\* C3: the success group is non-empty exactly when the mapping has a "200"
\* key, whatever that key maps to, and when non-empty it is exactly the three
\* fixed fields status, message and data.
C3_SuccessGroupIffKey200 ==
    ret # <<>> =>
        LET g == SuccessGroup(ret[1].response_fields) IN
        /\ (g # <<>>) <=> HasKey(ResponsesOf(arg.operation), Key200)
        /\ g # <<>> =>
              /\ Len(g) = 3
              /\ g[1].name = <<"status">>
              /\ g[2].name = <<"message">>
              /\ g[3].name = <<"data">>

\* positions in `responses` of the keys whose first character is 4 or 5
ErrorPositions(responses) ==
    {k \in 1..Len(responses) :
        /\ Len(responses[k][1]) > 0
        /\ responses[k][1][1] \in {"4", "5"}}

\* C9: the error group holds exactly one (status, message, error) triplet for
\* each key whose first character is 4 or 5, in the mapping's key order, each
\* embedding that key's status code, and none for any other key; the group
\* is absent when there is no such key.
C9_OneTripletPerErrorKey ==
    ret # <<>> =>
        LET fields == ret[1].response_fields
            g == ErrorGroup(fields)
            rs == ResponsesOf(arg.operation)
            E == ErrorPositions(rs)
        IN  /\ Len(g) = 3 * Cardinality(E)
            /\ \A n \in 1..Cardinality(E) :
                  /\ g[3 * n - 2].name = <<"status">>
                  /\ g[3 * n - 2].text = <<"HTTP status code: ">> \o rs[Nth(E, n)][1]
                  /\ g[3 * n - 1].name = <<"message">>
                  /\ g[3 * n].name = <<"error">>
            /\ E = {} => ErrorHeadingAt(fields) = Len(fields) + 1
            /\ E # {} => ErrorHeadingAt(fields) <= Len(fields)

\* C9: responses 404, 200, 500 in that order: two triplets, 404 then 500
C9_Witness ==
    /\ ret # <<>>
    /\ Len(ResponsesOf(arg.operation)) = 3
    /\ ResponsesOf(arg.operation)[1][1] = <<"4", "0", "4">>
    /\ ResponsesOf(arg.operation)[2][1] = Key200
    /\ ResponsesOf(arg.operation)[3][1] = <<"5", "0", "0">>
    /\ Len(ErrorGroup(ret[1].response_fields)) = 6
    /\ ErrorGroup(ret[1].response_fields)[4].text
           = <<"HTTP status code: ", "5", "0", "0">>

-----------------------------------------------------------------------------
(* Claims about regenerate_all_docs (Spec) *)

\* the entries of the document in api-reference/openapi.json
Entries ==
    IF input # <<>> /\ "paths" \in DOMAIN input[1] THEN input[1]["paths"] ELSE <<>>

\* m is one of GET, POST, PUT, PATCH, DELETE, compared without regard to case
InMethodSet(m) ==
    \E s \in SupportedMethods :
        /\ Len(s) = Len(m)
        /\ \A k \in 1..Len(s) : LowerChar(s[k]) = LowerChar(m[k])

\* the (path, method) pairs of the document, as positions <<p, k>>, whose
\* method is in the method set
SupportedPairs ==
    {e \in (1..Len(Entries)) \X (1..MaxPairs + 1) :
        /\ e[2] <= Len(Entries[e[1]][2])
        /\ InMethodSet(Entries[e[1]][2][e[2]][1])}

PathAt(e) == Entries[e[1]][1]
MethodAt(e) == Entries[e[1]][2][e[2]][1]
OperationAt(e) == Entries[e[1]][2][e[2]][2]
NameAt(e) == clean_filename(PathAt(e), MethodAt(e))

\* C1: after a run that completes, any two distinct supported pairs have
\* distinct filenames and the directory holds as many files as there are
\* supported pairs.
C1_OneFilePerPair ==
    pc = "done" =>
        /\ \A a, b \in SupportedPairs : a # b => NameAt(a) # NameAt(b)
        /\ Cardinality(DOMAIN disk.files) = Cardinality(SupportedPairs)

\* C6: the counter is 0 when the loops are entered, goes up by exactly one in
\* the step right after each file write and changes at no other time in a
\* run; a key outside the method set changes neither the directory nor the
\* counter; at completion the counter is the number of supported pairs.
C6_CounterCountsWrites ==
    [][ /\ (pc = "mkdir" /\ pc' = "loop") => generated_count' = 0
        /\ pc' = "count" =>
              /\ pc = "loop"
              /\ InMethodSet(CurMethod)
              /\ clean_filename(CurPath, CurMethod) \in DOMAIN disk'.files
              /\ generated_count' = generated_count
        /\ pc = "count" => generated_count' = generated_count + 1
        /\ (pc \in {"load", "clear", "loop", "failed"})
              => generated_count' = generated_count
        /\ (AtEntry /\ ~InMethodSet(CurMethod)) =>
              /\ disk' = disk
              /\ generated_count' = generated_count
              /\ pc' = "loop"
        /\ pc' = "done" => generated_count' = Cardinality(SupportedPairs)
      ]_vars

\* C6: a run over a supported and an unsupported key has completed with a
\* count of one
C6_Witness ==
    /\ pc = "done"
    /\ generated_count = 1
    /\ Len(Entries) = 1
    /\ Len(Entries[1][2]) = 2
    /\ Entries[1][2][1][1] = KeyParameters
    /\ Cardinality(DOMAIN disk.files) = 1

\* C7: after a completed run every file of the directory is the page of a
\* supported pair of the document, whatever the directory held before, and a
\* second completed run on the same input leaves the directory as the first
\* one left it.
C7_RerunLeavesSameDirectory ==
    pc = "done" =>
        /\ disk.exists
        /\ \A f \in DOMAIN disk.files :
              \E e \in SupportedPairs :
                  /\ f = NameAt(e)
                  /\ disk.files[f] =
                         <<generate_mdx_content(PathAt(e), MethodAt(e), OperationAt(e))>>
        /\ \A e \in SupportedPairs : NameAt(e) \in DOMAIN disk.files
        /\ prev # <<>> => disk = prev[1]

\* C7: the second run has completed on a directory that first held pages of
\* another document, and those pages are gone
C7_Witness ==
    /\ pc = "done"
    /\ prev # <<>>
    /\ StaleName \in DOMAIN prior.files
    /\ StaleName \notin DOMAIN disk.files
    /\ Cardinality(DOMAIN disk.files) = 2

\* C8: when the load fails the run ends with the directory as it was found,
\* and in every run the directory changes only after the load has returned.
C8_LoadFailureTouchesNothing ==
    [][ /\ (pc' = "failed" /\ spec' = <<>>) => (disk' = prior' /\ input = <<>>)
        /\ (pc = "load" /\ input = <<>>) => (pc' = "failed" /\ disk' = disk)
        /\ disk' # disk => spec # <<>>
      ]_vars

\* C8: the load failed on an existing directory, which still holds its files
C8_Witness ==
    /\ pc = "failed"
    /\ input = <<>>
    /\ spec = <<>>
    /\ StaleName \in DOMAIN disk.files
    /\ disk = prior

RunPhase(p) ==
    CASE p = "idle" -> "Idle"
      [] p = "done" -> "Done"
      [] p = "failed" -> "Failed"
      [] OTHER -> "Running"

\* the supported pairs the loops have passed before reaching (pi, mi)
PairsBefore ==
    {e \in SupportedPairs : e[1] < pi \/ (e[1] = pi /\ e[2] < mi)}

\* C10: when mkdir or the write of the k-th supported pair fails the run is
\* Failed for good, the counter is k-1, and every file the directory held
\* just before is still there with the same content; a run moves only
\* Idle -> Running -> Done or Idle -> Running -> Failed.
C10_FailureKeepsEarlierFiles ==
    [][ /\ (pc \in {"mkdir", "loop"} /\ pc' = "failed") =>
              /\ generated_count' = generated_count
              /\ pc = "loop" => generated_count = Cardinality(PairsBefore)
              /\ \A f \in DOMAIN disk.files :
                    /\ f \in DOMAIN disk'.files
                    /\ disk'.files[f] = disk.files[f]
        /\ pc = "failed" => pc' = "failed"
        /\ prev' = prev =>
              <<RunPhase(pc), RunPhase(pc')>> \in
                  { <<"Idle", "Idle">>, <<"Idle", "Running">>,
                    <<"Running", "Running">>, <<"Running", "Done">>,
                    <<"Running", "Failed">>, <<"Done", "Done">>,
                    <<"Failed", "Failed">> }
      ]_vars

====
